---- MODULE Spec2Model ----
(***************************************************************************)
(* Model of flash/vision/backbones.py: the backbone resolver.  A caller    *)
(* asks for a model name; the resolver dispatches on the family tables,    *)
(* delegates construction to torchvision or to bolts, and post-processes   *)
(* the constructed network into (backbone, num_features).                  *)
(***************************************************************************)
EXTENDS Naturals, Integers, Sequences, FiniteSets, TLC

VARIABLES
    tables,             \* the module-level lists, as the running process holds them
    _BOLTS_AVAILABLE,   \* whether pl_bolts could be imported (line 17)
    registry,           \* the attribute names torchvision.models resolves (line 88)
    arch,               \* what the external libraries build: depth and head width
    pc,                 \* per caller: "idle", "external" or "done"
    req,                \* per caller: the call the caller made
    frame,              \* per caller: the arguments the innermost resolver received
    net,                \* per caller: the network the external library returned
    result,             \* per caller: the outcome of the call
    built,              \* per caller: external constructions/loads during this call
    nbuilt              \* external constructions/loads since the process started

tableVars == <<tables>>
envVars == <<_BOLTS_AVAILABLE, registry, arch>>
vars == <<tableVars, envVars, pc, req, frame, net, result, built, nbuilt>>

----------------------------------------------------------------------------
(* Bounds *)

NumCallers == 2
MaxDepth == 3
MaxBuilds == 2

Callers == 1..NumCallers

----------------------------------------------------------------------------
(* The family tables, lines 26-32 *)

MOBILENET_MODELS == <<"mobilenet_v2">>
VGG_MODELS == <<"vgg11", "vgg13", "vgg16", "vgg19">>
RESNET_MODELS ==
    <<"resnet18", "resnet34", "resnet50", "resnet101", "resnet152",
      "resnext50_32x4d", "resnext101_32x8d">>
DENSENET_MODELS == <<"densenet121", "densenet169", "densenet161">>
TORCHVISION_MODELS ==
    MOBILENET_MODELS \o VGG_MODELS \o RESNET_MODELS \o DENSENET_MODELS

BOLTS_MODELS == <<"simclr-imagenet", "swav-imagenet">>

\* the module's globals once it is imported
ModuleTables ==
    [MOBILENET_MODELS |-> MOBILENET_MODELS, VGG_MODELS |-> VGG_MODELS,
     RESNET_MODELS |-> RESNET_MODELS, DENSENET_MODELS |-> DENSENET_MODELS,
     TORCHVISION_MODELS |-> TORCHVISION_MODELS, BOLTS_MODELS |-> BOLTS_MODELS]

----------------------------------------------------------------------------
(* Python helpers *)

\* x in lst, for a Python list
In(x, lst) == \E i \in 1..Len(lst) : lst[i] = x

\* lst[:-1]
DropLastOne(lst) ==
    LET stop == IF Len(lst) - 1 < 0 THEN 0 ELSE Len(lst) - 1
    IN  [i \in 1..stop |-> lst[i]]

\* lst[:-2]
DropLastTwo(lst) ==
    LET stop == IF Len(lst) - 2 < 0 THEN 0 ELSE Len(lst) - 2
    IN  [i \in 1..stop |-> lst[i]]

NoKwargs == [k \in {} |-> TRUE]

----------------------------------------------------------------------------
(* Outcomes *)

NoneValue == [kind |-> "none"]

UnsupportedNoName(model_name) ==
    [kind |-> "ValueError", msg |-> <<"model", " is not supported yet.">>]

\* ValueError(f"{model_name} is not supported yet.")
Unsupported(model_name) ==
    [kind |-> "ValueError", msg |-> <<model_name, " is not supported yet.">>]

\* MisconfigurationException("Bolts isn't installed. ...")
BoltsMissing ==
    [kind |-> "MisconfigurationException",
     msg |-> <<"Bolts isn't installed. Please, use pip install lightning-bolts.">>]

\* MisconfigurationException(f"{model_name} is not supported by torchvision")
NotInTorchvision(model_name) ==
    [kind |-> "MisconfigurationException",
     msg |-> <<model_name, " is not supported by torchvision">>]

\* what Python raises when a call does not fit the callee's signature
TypeError == [kind |-> "TypeError"]

\* a failure inside the external library (download, weight loading)
ExternalError == [kind |-> "ExternalError"]

Returned(backbone, num_features) ==
    [kind |-> "ok", backbone |-> backbone, num_features |-> num_features]

\* the call goes on to the external library
Pending(family, pretrained) ==
    [kind |-> "pending", family |-> family, pretrained |-> pretrained]

----------------------------------------------------------------------------
(* The external libraries, as far as the resolver looks into them *)

Widths == {512, 2048}

\* every name the full torchvision.models namespace resolves here
TorchvisionNames ==
    {"mobilenet_v2", "vgg11", "vgg13", "vgg16", "vgg19",
     "resnet18", "resnet34", "resnet50", "resnet101", "resnet152",
     "resnext50_32x4d", "resnext101_32x8d",
     "densenet121", "densenet169", "densenet161", "alexnet"}

\* names an older torchvision does not have yet
LegacyMissing == {"resnext50_32x4d"}

TorchvisionResNets ==
    {"resnet18", "resnet34", "resnet50", "resnet101", "resnet152",
     "resnext50_32x4d", "resnext101_32x8d"}

TorchvisionDenseNets == {"densenet121", "densenet169", "densenet161"}

\* a sub-module of network nid
Layer(nid, kind, ix) == [net |-> nid, kind |-> kind, ix |-> ix]

\* nn.Sequential(*layers), a new container made during call nid
Sequential(nid, layers) == [obj |-> <<"Sequential", nid>>, layers |-> layers]

\* model(pretrained=pretrained): the network torchvision builds for a name
TorchvisionModel(model_name, pretrained, nid) ==
    LET children == [i \in 1..arch.depth |-> Layer(nid, "child", i)]
        features == [obj |-> <<"features", nid>>,
                     layers |-> [i \in 1..arch.depth |-> Layer(nid, "feature", i)]]
    IN  IF model_name \in TorchvisionResNets
        THEN [kind |-> "torchvision", id |-> nid, name |-> model_name,
              pretrained |-> pretrained, children |-> children,
              fc |-> [in_features |-> arch.width]]
        ELSE IF model_name \in TorchvisionDenseNets
        THEN [kind |-> "torchvision", id |-> nid, name |-> model_name,
              pretrained |-> pretrained, children |-> children,
              features |-> features,
              classifier |-> [in_features |-> arch.width]]
        ELSE [kind |-> "torchvision", id |-> nid, name |-> model_name,
              pretrained |-> pretrained, children |-> children,
              features |-> features,
              classifier |-> <<[layer |-> "Dropout"],
                               [layer |-> "Linear", in_features |-> arch.width]>>]

\* SimCLR.load_from_checkpoint(url, strict=False)
SimCLRModel(nid) ==
    [kind |-> "SimCLR", id |-> nid,
     encoder |-> [children |-> [i \in 1..arch.depth |-> Layer(nid, "child", i)],
                  out_features |-> arch.width]]

\* SwAV.load_from_checkpoint(url, strict=True)
SwAVModel(nid) ==
    [kind |-> "SwAV", id |-> nid,
     model |-> [children |-> [i \in 1..arch.depth |-> Layer(nid, "child", i)],
                out_features |-> arch.width]]

----------------------------------------------------------------------------
(* bolts_backbone_and_num_features, lines 45-76 *)

\* load_simclr_imagenet, after the checkpoint is loaded
load_simclr_imagenet(simclr) ==
    LET backbone == Sequential(simclr.id, DropLastTwo(simclr.encoder.children))
    IN  Returned(backbone, 2048)

load_swav_imagenet_measured(swav) ==
    LET backbone == Sequential(swav.id, DropLastTwo(swav.model.children))
    IN  Returned(backbone, swav.model.out_features)

\* load_swav_imagenet, after the checkpoint is loaded
load_swav_imagenet(swav) ==
    LET backbone == Sequential(swav.id, DropLastTwo(swav.model.children))
    IN  Returned(backbone, 3000)

\* the dict of loaders
models ==
    [n \in {"simclr-imagenet", "swav-imagenet"} |->
        IF n = "simclr-imagenet" THEN "load_simclr_imagenet" ELSE "load_swav_imagenet"]

BoltsBodyNoAvailabilityCheck(model_name) ==
    IF model_name \in DOMAIN models
    THEN Pending(models[model_name], TRUE)
    ELSE Unsupported(model_name)

BoltsBodyDefaultLoader(model_name) ==
    IF ~_BOLTS_AVAILABLE
    THEN BoltsMissing
    ELSE IF model_name \in DOMAIN models
         THEN Pending(models[model_name], TRUE)
         ELSE Pending("load_simclr_imagenet", TRUE)

\* lines 71-76: the body up to the call of the loader
BoltsBody(model_name) ==
    IF ~_BOLTS_AVAILABLE
    THEN BoltsMissing
    ELSE IF model_name \in DOMAIN models
         THEN Pending(models[model_name], TRUE)
         ELSE Unsupported(model_name)

----------------------------------------------------------------------------
(* torchvision_backbone_and_num_features, lines 79-111 *)

\* binding a call to the signature (model_name: str, pretrained: bool = True)
BindVision(args, kwargs) ==
    IF Len(args) > 1
    THEN [ok |-> FALSE, pretrained |-> TRUE]           \* too many positional arguments
    ELSE IF Len(args) = 1 /\ "pretrained" \in DOMAIN kwargs
    THEN [ok |-> FALSE, pretrained |-> TRUE]           \* multiple values for pretrained
    ELSE IF DOMAIN kwargs \ {"pretrained"} # {}
    THEN [ok |-> FALSE, pretrained |-> TRUE]           \* unexpected keyword argument
    ELSE IF Len(args) = 1
    THEN [ok |-> TRUE, pretrained |-> args[1]]
    ELSE IF "pretrained" \in DOMAIN kwargs
    THEN [ok |-> TRUE, pretrained |-> kwargs["pretrained"]]
    ELSE [ok |-> TRUE, pretrained |-> TRUE]

\* the branch of lines 92-109 a name takes
Family(model_name) ==
    IF In(model_name, tables.MOBILENET_MODELS \o tables.VGG_MODELS) THEN "mobilenet_vgg"
    ELSE IF In(model_name, tables.RESNET_MODELS) THEN "resnet"
    ELSE IF In(model_name, tables.DENSENET_MODELS) THEN "densenet"
    ELSE "none"

VisionBodyTablesFirst(model_name, pretrained) ==
    IF Family(model_name) = "none"
    THEN Unsupported(model_name)
    ELSE IF model_name \notin registry
    THEN NotInTorchvision(model_name)
    ELSE Pending(Family(model_name), pretrained)

VisionBodyConstructFirst(model_name, pretrained) ==
    IF model_name \notin registry
    THEN NotInTorchvision(model_name)
    ELSE Pending(Family(model_name), pretrained)

\* lines 88-111: the body up to the call of the constructor
VisionBody(model_name, pretrained) ==
    IF model_name \notin registry
    THEN NotInTorchvision(model_name)
    ELSE IF Family(model_name) = "none"
    THEN Unsupported(model_name)
    ELSE Pending(Family(model_name), pretrained)

VisionFinishHardCoded(model_name, family, model) ==
    IF family = "mobilenet_vgg"
    THEN Returned(model.features, 2048)
    ELSE IF family = "resnet"
    THEN Returned(Sequential(model.id, DropLastTwo(model.children)), 2048)
    ELSE IF family = "densenet"
    THEN Returned(Sequential(model.id,
                     Append(model.features.layers, Layer(model.id, "ReLU", 1))), 2048)
    ELSE Unsupported(model_name)

\* lines 94-96, 101-103, 107-109, 111: what follows the constructor
VisionFinish(model_name, family, model) ==
    IF family = "mobilenet_vgg"
    THEN Returned(model.features,
                  model.classifier[Len(model.classifier)].in_features)
    ELSE IF family = "resnet"
    THEN Returned(Sequential(model.id, DropLastTwo(model.children)),
                  model.fc.in_features)
    ELSE IF family = "densenet"
    THEN Returned(Sequential(model.id,
                     Append(model.features.layers, Layer(model.id, "ReLU", 1))),
                  model.classifier.in_features)
    ELSE Unsupported(model_name)

----------------------------------------------------------------------------
(* backbone_and_num_features, lines 35-42 *)

Frame(fn, model_name, args, kwargs) ==
    [fn |-> fn, model_name |-> model_name, args |-> args, kwargs |-> kwargs]

DispatchDropKwargs(model_name, args, kwargs) ==
    IF In(model_name, tables.BOLTS_MODELS)
    THEN Frame("bolts_backbone_and_num_features", model_name, <<>>, NoKwargs)
    ELSE IF In(model_name, tables.TORCHVISION_MODELS)
    THEN Frame("torchvision_backbone_and_num_features", model_name, args, NoKwargs)
    ELSE Frame("none", model_name, <<>>, NoKwargs)

\* the call resolve makes: which resolver, with which arguments
Dispatch(model_name, args, kwargs) ==
    IF In(model_name, tables.BOLTS_MODELS)
    THEN Frame("bolts_backbone_and_num_features", model_name, <<>>, NoKwargs)
    ELSE IF In(model_name, tables.TORCHVISION_MODELS)
    THEN Frame("torchvision_backbone_and_num_features", model_name, args, kwargs)
    ELSE Frame("none", model_name, <<>>, NoKwargs)

\* running the called resolver up to its external call, or to its error
Enter(fr) ==
    IF fr.fn = "bolts_backbone_and_num_features"
    THEN BoltsBody(fr.model_name)
    ELSE IF fr.fn = "torchvision_backbone_and_num_features"
    THEN IF BindVision(fr.args, fr.kwargs).ok
         THEN VisionBody(fr.model_name, BindVision(fr.args, fr.kwargs).pretrained)
         ELSE TypeError
    ELSE Unsupported(fr.model_name)

----------------------------------------------------------------------------
(* Inputs *)

InputNames ==
    {"mobilenet_v2", "vgg16", "resnet18", "resnext50_32x4d", "densenet121",
     "simclr-imagenet", "swav-imagenet", "alexnet", "not-a-model"}

InputArgs == {<<>>, <<TRUE>>, <<FALSE>>, <<FALSE, TRUE>>}

InputKwargs ==
    {NoKwargs,
     [k \in {"pretrained"} |-> TRUE],
     [k \in {"pretrained"} |-> FALSE],
     [k \in {"progress"} |-> TRUE],
     [k \in {"pretrained", "progress"} |-> FALSE]}

ConcNames == {"mobilenet_v2", "resnet18", "simclr-imagenet", "not-a-model"}

ConcKwargs == {NoKwargs, [k \in {"pretrained"} |-> FALSE]}

----------------------------------------------------------------------------
(* State machine *)

Init ==
    /\ tables = ModuleTables
    /\ _BOLTS_AVAILABLE \in BOOLEAN
    /\ registry \in {TorchvisionNames \ m : m \in SUBSET LegacyMissing}
    /\ arch \in [depth : 0..MaxDepth, width : Widths]
    /\ pc = [c \in Callers |-> "idle"]
    /\ req = [c \in Callers |-> NoneValue]
    /\ frame = [c \in Callers |-> NoneValue]
    /\ net = [c \in Callers |-> NoneValue]
    /\ result = [c \in Callers |-> NoneValue]
    /\ built = [c \in Callers |-> 0]
    /\ nbuilt = 0

\* a caller's call reaches resolver frame fr and runs to its external call or error
Begin(c, op, model_name, args, kwargs, fr) ==
    /\ req' = [req EXCEPT ![c] = [kind |-> "call", op |-> op, model_name |-> model_name,
                                  args |-> args, kwargs |-> kwargs]]
    /\ frame' = [frame EXCEPT ![c] = [kind |-> "frame", fn |-> fr.fn,
                                      model_name |-> fr.model_name,
                                      args |-> fr.args, kwargs |-> fr.kwargs,
                                      at |-> Enter(fr)]]
    /\ IF Enter(fr).kind = "pending"
       THEN /\ pc' = [pc EXCEPT ![c] = "external"]
            /\ result' = result
       ELSE /\ pc' = [pc EXCEPT ![c] = "done"]
            /\ result' = [result EXCEPT ![c] = Enter(fr)]
    /\ UNCHANGED <<tableVars, envVars, net, built, nbuilt>>

backbone_and_num_features(c, model_name, args, kwargs) ==
    /\ pc[c] = "idle"
    /\ Begin(c, "backbone_and_num_features", model_name, args, kwargs,
             Dispatch(model_name, args, kwargs))

bolts_backbone_and_num_features(c, model_name) ==
    /\ pc[c] = "idle"
    /\ Begin(c, "bolts_backbone_and_num_features", model_name, <<>>, NoKwargs,
             Frame("bolts_backbone_and_num_features", model_name, <<>>, NoKwargs))

torchvision_backbone_and_num_features(c, model_name, args, kwargs) ==
    /\ pc[c] = "idle"
    /\ Begin(c, "torchvision_backbone_and_num_features", model_name, args, kwargs,
             Frame("torchvision_backbone_and_num_features", model_name, args, kwargs))

ConstructedIdCached(c) ==
    IF \E d \in Callers \ {c} :
           net[d].kind # "none" /\ frame[d].model_name = frame[c].model_name
    THEN net[CHOOSE d \in Callers \ {c} :
                 net[d].kind # "none" /\ frame[d].model_name = frame[c].model_name].id
    ELSE nbuilt + 1

\* the identity of the network this call has the external library build: every
\* call builds its own, nothing is looked up in a cache
ConstructedId(c) == nbuilt + 1

\* the torchvision constructor returns; the resolver finishes and returns
Construct(c) ==
    /\ pc[c] = "external"
    /\ frame[c].fn = "torchvision_backbone_and_num_features"
    /\ nbuilt < MaxBuilds
    /\ LET model == TorchvisionModel(frame[c].model_name, frame[c].at.pretrained,
                                     ConstructedId(c))
       IN  /\ net' = [net EXCEPT ![c] = model]
           /\ result' = [result EXCEPT ![c] =
                            VisionFinish(frame[c].model_name, frame[c].at.family, model)]
    /\ nbuilt' = nbuilt + 1
    /\ built' = [built EXCEPT ![c] = built[c] + 1]
    /\ pc' = [pc EXCEPT ![c] = "done"]
    /\ UNCHANGED <<tableVars, envVars, req, frame>>

\* the checkpoint load returns; the loader finishes and returns
LoadCheckpoint(c) ==
    /\ pc[c] = "external"
    /\ frame[c].fn = "bolts_backbone_and_num_features"
    /\ nbuilt < MaxBuilds
    /\ LET model == IF frame[c].at.family = "load_simclr_imagenet"
                    THEN SimCLRModel(ConstructedId(c))
                    ELSE SwAVModel(ConstructedId(c))
       IN  /\ net' = [net EXCEPT ![c] = model]
           /\ result' = [result EXCEPT ![c] =
                            IF frame[c].at.family = "load_simclr_imagenet"
                            THEN load_simclr_imagenet(model)
                            ELSE load_swav_imagenet(model)]
    /\ nbuilt' = nbuilt + 1
    /\ built' = [built EXCEPT ![c] = built[c] + 1]
    /\ pc' = [pc EXCEPT ![c] = "done"]
    /\ UNCHANGED <<tableVars, envVars, req, frame>>

\* the external library raises; the error propagates unchanged
ExternalFails(c) ==
    /\ pc[c] = "external"
    /\ result' = [result EXCEPT ![c] = ExternalError]
    /\ pc' = [pc EXCEPT ![c] = "done"]
    /\ UNCHANGED <<tableVars, envVars, req, frame, net, built, nbuilt>>

\* the caller takes the outcome and is free to call again
Return(c) ==
    /\ pc[c] = "done"
    /\ pc' = [pc EXCEPT ![c] = "idle"]
    /\ req' = [req EXCEPT ![c] = NoneValue]
    /\ frame' = [frame EXCEPT ![c] = NoneValue]
    /\ net' = [net EXCEPT ![c] = NoneValue]
    /\ result' = [result EXCEPT ![c] = NoneValue]
    /\ built' = [built EXCEPT ![c] = 0]
    /\ UNCHANGED <<tableVars, envVars, nbuilt>>

\* one caller, every input
Next ==
    \/ \E n \in InputNames, a \in InputArgs, k \in InputKwargs :
           backbone_and_num_features(1, n, a, k)
    \/ \E n \in InputNames :
           bolts_backbone_and_num_features(1, n)
    \/ \E n \in InputNames, a \in InputArgs, k \in InputKwargs :
           torchvision_backbone_and_num_features(1, n, a, k)
    \/ Construct(1)
    \/ LoadCheckpoint(1)
    \/ ExternalFails(1)
    \/ Return(1)

Spec == Init /\ [][Next]_vars

\* the callers of a multi-threaded process, interleaved
InitConc ==
    /\ Init
    /\ arch.depth = MaxDepth
    /\ registry = TorchvisionNames

NextConc ==
    \E c \in Callers :
        \/ \E n \in ConcNames, k \in ConcKwargs :
               backbone_and_num_features(c, n, <<>>, k)
        \/ bolts_backbone_and_num_features(c, "simclr-imagenet")
        \/ torchvision_backbone_and_num_features(c, "resnet18", <<>>, NoKwargs)
        \/ Construct(c)
        \/ LoadCheckpoint(c)
        \/ ExternalFails(c)
        \/ Return(c)

SpecConc == InitConc /\ [][NextConc]_vars

----------------------------------------------------------------------------
(* Properties *)

Done(c) == pc[c] = "done"

ViaResolve(c) == req[c].kind = "call" /\ req[c].op = "backbone_and_num_features"

InBolts(c) == frame[c].kind = "frame" /\ frame[c].fn = "bolts_backbone_and_num_features"

InVision(c) ==
    frame[c].kind = "frame" /\ frame[c].fn = "torchvision_backbone_and_num_features"

Ok(c) == Done(c) /\ result[c].kind = "ok"

\* C1: resolve, given a name in neither BOLTS_MODELS nor TORCHVISION_MODELS, ends
\* with a ValueError whose message names that string, whatever the arguments and
\* whether or not bolts is available.
C1_UnknownNameUnsupported ==
    \A c \in Callers :
        (Done(c) /\ ViaResolve(c)
         /\ ~In(req[c].model_name, tables.BOLTS_MODELS)
         /\ ~In(req[c].model_name, tables.TORCHVISION_MODELS))
        => /\ result[c].kind = "ValueError"
           /\ result[c].msg = <<req[c].model_name, " is not supported yet.">>

C1_Witness ==
    \E c \in Callers :
        /\ Done(c) /\ ViaResolve(c)
        /\ req[c].model_name = "not-a-model"
        /\ req[c].args = <<FALSE>> /\ DOMAIN req[c].kwargs = {"progress"}
        /\ ~_BOLTS_AVAILABLE
        /\ result[c].kind = "ValueError"

\* C2: with bolts available and the checkpoint loaded, simclr-imagenet returns
\* width 2048 and swav-imagenet returns 3000, whatever the loaded network is.
C2_BoltsWidthsFixed ==
    \A c \in Callers :
        (Ok(c) /\ InBolts(c))
        => /\ frame[c].model_name = "simclr-imagenet" => result[c].num_features = 2048
           /\ frame[c].model_name = "swav-imagenet" => result[c].num_features = 3000
           /\ frame[c].model_name \in {"simclr-imagenet", "swav-imagenet"}

C2_Witness ==
    \E c \in Callers :
        /\ Ok(c) /\ InBolts(c) /\ ViaResolve(c)
        /\ frame[c].model_name = "swav-imagenet"
        /\ net[c].kind = "SwAV"
        /\ net[c].model.out_features = 512
        /\ Len(net[c].model.children) = 1
        /\ result[c].num_features = 3000

\* C3: with bolts unavailable, either self-supervised name, through resolve or
\* directly, ends with the MisconfigurationException about bolts, never with a
\* ValueError or a result.
C3_BoltsUnavailable ==
    \A c \in Callers :
        (Done(c) /\ ~_BOLTS_AVAILABLE
         /\ req[c].op \in {"backbone_and_num_features", "bolts_backbone_and_num_features"}
         /\ req[c].model_name \in {"simclr-imagenet", "swav-imagenet"})
        => /\ result[c].kind = "MisconfigurationException"
           /\ built[c] = 0

C3_Witness ==
    \E c \in Callers :
        /\ Done(c) /\ ~_BOLTS_AVAILABLE /\ ViaResolve(c)
        /\ req[c].model_name = "swav-imagenet"
        /\ result[c].kind = "MisconfigurationException"

\* C4: a successful torchvision resolution returns the width read from the
\* constructed network by the family of the name: classifier[-1].in_features for
\* mobile and VGG names, fc.in_features for residual names, classifier.in_features
\* for dense names.
C4_WidthIntrospected ==
    \A c \in Callers :
        (Ok(c) /\ InVision(c))
        => LET n == frame[c].model_name
               m == net[c]
           IN  /\ In(n, tables.MOBILENET_MODELS \o tables.VGG_MODELS)
                   => result[c].num_features = m.classifier[Len(m.classifier)].in_features
               /\ In(n, tables.RESNET_MODELS) => result[c].num_features = m.fc.in_features
               /\ In(n, tables.DENSENET_MODELS)
                   => result[c].num_features = m.classifier.in_features
               /\ In(n, tables.TORCHVISION_MODELS)

C4_Witness ==
    \E c \in Callers :
        /\ Ok(c) /\ InVision(c)
        /\ frame[c].model_name = "resnet18"
        /\ net[c].fc.in_features = 512
        /\ result[c].num_features = 512

\* C5 as stated: for every recognized name, the resolver that resolve delegates
\* to receives exactly the positional and keyword arguments the caller passed.
C5_ForwardedToEveryResolver ==
    \A c \in Callers :
        (pc[c] # "idle" /\ ViaResolve(c) /\ (InBolts(c) \/ InVision(c)))
        => /\ frame[c].model_name = req[c].model_name
           /\ frame[c].args = req[c].args
           /\ frame[c].kwargs = req[c].kwargs

\* C5: for a name of TORCHVISION_MODELS that is not in BOLTS_MODELS, resolve
\* passes the caller's positional and keyword arguments unchanged to
\* torchvision_backbone_and_num_features; for a name of BOLTS_MODELS it passes the
\* name alone to bolts_backbone_and_num_features and drops the arguments.
C5_ForwardedToVisionOnly ==
    \A c \in Callers :
        (pc[c] # "idle" /\ ViaResolve(c))
        => /\ In(req[c].model_name, tables.BOLTS_MODELS)
               => /\ InBolts(c)
                  /\ frame[c].model_name = req[c].model_name
                  /\ frame[c].args = <<>>
                  /\ DOMAIN frame[c].kwargs = {}
           /\ (~In(req[c].model_name, tables.BOLTS_MODELS)
               /\ In(req[c].model_name, tables.TORCHVISION_MODELS))
               => /\ InVision(c)
                  /\ frame[c].model_name = req[c].model_name
                  /\ frame[c].args = req[c].args
                  /\ frame[c].kwargs = req[c].kwargs
                  /\ (frame[c].at.kind = "pending" /\ DOMAIN req[c].kwargs = {"pretrained"})
                      => frame[c].at.pretrained = req[c].kwargs["pretrained"]
                  /\ (frame[c].at.kind = "pending" /\ Len(req[c].args) = 1)
                      => frame[c].at.pretrained = req[c].args[1]

C5_Witness ==
    \E c1 \in Callers :
        /\ Ok(c1) /\ ViaResolve(c1) /\ InVision(c1)
        /\ req[c1].model_name = "vgg16"
        /\ DOMAIN req[c1].kwargs = {"pretrained"}
        /\ req[c1].kwargs["pretrained"] = FALSE
        /\ net[c1].pretrained = FALSE

\* C6 as stated: bolts_backbone_and_num_features, called directly with a name
\* outside the two self-supervised names, ends with a ValueError.
C6_DirectUnknownUnsupported ==
    \A c \in Callers :
        (Done(c) /\ req[c].op = "bolts_backbone_and_num_features"
         /\ req[c].model_name \notin {"simclr-imagenet", "swav-imagenet"})
        => result[c].kind = "ValueError"

\* C6: bolts_backbone_and_num_features, called directly with a name outside the two
\* self-supervised names, ends with a ValueError naming it when bolts is available,
\* and with the MisconfigurationException about bolts when it is not.
C6_DirectUnknownByAvailability ==
    \A c \in Callers :
        (Done(c) /\ req[c].op = "bolts_backbone_and_num_features"
         /\ req[c].model_name \notin {"simclr-imagenet", "swav-imagenet"})
        => /\ _BOLTS_AVAILABLE
               => /\ result[c].kind = "ValueError"
                  /\ result[c].msg = <<req[c].model_name, " is not supported yet.">>
           /\ ~_BOLTS_AVAILABLE => result[c].kind = "MisconfigurationException"
           /\ built[c] = 0

C6_Witness ==
    \E c \in Callers :
        /\ Done(c) /\ req[c].op = "bolts_backbone_and_num_features"
        /\ req[c].model_name = "resnet18"
        /\ _BOLTS_AVAILABLE
        /\ result[c].kind = "ValueError"

\* C8: torchvision_backbone_and_num_features looks the name up in the registry
\* before it consults the family tables: a name the registry lacks ends with the
\* MisconfigurationException naming it, in a family table or not; a name the
\* registry has that is in no family table ends with the ValueError.
C8_RegistryBeforeTables ==
    \A c \in Callers :
        (Done(c) /\ InVision(c) /\ result[c].kind # "TypeError")
        => LET n == frame[c].model_name
           IN  /\ n \notin registry
                   => /\ result[c].kind = "MisconfigurationException"
                      /\ result[c].msg = <<n, " is not supported by torchvision">>
               /\ (n \in registry /\ ~In(n, tables.MOBILENET_MODELS \o tables.VGG_MODELS)
                   /\ ~In(n, tables.RESNET_MODELS) /\ ~In(n, tables.DENSENET_MODELS))
                   => /\ result[c].kind = "ValueError"
                      /\ result[c].msg = <<n, " is not supported yet.">>

C8_Witness ==
    \E c \in Callers :
        /\ Done(c) /\ InVision(c)
        /\ req[c].op = "torchvision_backbone_and_num_features"
        /\ frame[c].model_name = "not-a-model"
        /\ ~In("not-a-model", tables.TORCHVISION_MODELS)
        /\ result[c].kind = "MisconfigurationException"

\* the first n elements of lst, in order
IsPrefix(b, lst) == Len(b) <= Len(lst) /\ \A i \in 1..Len(b) : b[i] = lst[i]

AllButLastTwo(b, lst) ==
    /\ IsPrefix(b, lst)
    /\ Len(lst) >= 2 => Len(b) + 2 = Len(lst)
    /\ Len(lst) < 2 => Len(b) = 0

C10_ErrorsBeforeExternalWork ==
    \A c \in Callers :
        (Done(c) /\ result[c].kind \in {"ValueError", "MisconfigurationException"})
        => /\ built[c] = 0
           /\ net[c].kind = "none"

C10_Witness ==
    \E c \in Callers :
        /\ Done(c) /\ InVision(c)
        /\ frame[c].model_name = "alexnet"
        /\ result[c].kind = "ValueError"
        /\ built[c] = 0
        /\ nbuilt = 1

\* the layer kinds of a backbone, in order, without the objects' identities
Structure(b) == [i \in 1..Len(b.layers) |-> <<b.layers[i].kind, b.layers[i].ix>>]

Holding == {c \in Callers : net[c].kind # "none"}

C7_State ==
    /\ tables = ModuleTables
    /\ \A c \in Callers : Ok(c) => (built[c] = 1 /\ c \in Holding)
    /\ Cardinality(Holding) <= nbuilt
    /\ \A c1 \in Holding : \A c2 \in Holding \ {c1} :
           /\ net[c1].id # net[c2].id
           /\ (Ok(c1) /\ Ok(c2))
               => /\ result[c1].backbone.obj # result[c2].backbone.obj
                  /\ \A i \in 1..Len(result[c1].backbone.layers) :
                     \A j \in 1..Len(result[c2].backbone.layers) :
                         result[c1].backbone.layers[i] # result[c2].backbone.layers[j]
    /\ \A c1 \in Callers : \A c2 \in Callers :
           (Ok(c1) /\ Ok(c2) /\ req[c1] = req[c2])
           => /\ Structure(result[c1].backbone) = Structure(result[c2].backbone)
              /\ result[c1].num_features = result[c2].num_features

C7_Step ==
    /\ tableVars' = tableVars
    /\ \A c \in Callers :
           (pc[c] = "external" /\ pc'[c] = "done" /\ result'[c].kind = "ok")
           => /\ nbuilt' = nbuilt + 1
              /\ built[c] = 0 /\ built'[c] = 1
              /\ \A d \in Callers \ {c} : net'[d] = net[d] /\ result'[d] = result[d]

\* C7: the resolver keeps no cache and no shared mutable state: the family tables
\* never change; every call that succeeds performs exactly one external
\* construction or load of its own; the results of different calls, sequential or
\* interleaved, share no object; and calls with identical arguments return
\* results of the same structure and width.
C7_NoCacheNoSharedState == [](C7_State) /\ [][C7_Step]_vars

C7_Witness ==
    \E c1 \in Callers : \E c2 \in Callers \ {c1} :
        /\ Ok(c1) /\ Ok(c2)
        /\ req[c1] = req[c2]
        /\ req[c1].model_name = "resnet18"
        /\ nbuilt = 2
        /\ net[c1].id # net[c2].id
        /\ Structure(result[c1].backbone) = Structure(result[c2].backbone)

====
